---- MODULE Spec2Model ----
(***************************************************************************)
(* Model of the signer's message-to-digest pipeline: the EIP-712 typed     *)
(* data encoder (Types.validate, Dependencies, EncodeType, EncodeData,     *)
(* EncodePrimitiveValue, parseInteger), the validator-prefix codec and the *)
(* clique header pre-image helper.                                         *)
(*                                                                         *)
(* Go strings are sequences of one-character strings, byte slices are      *)
(* sequences of numbers 0..255, and a *big.Int is a sign with a big-endian *)
(* magnitude, so that the widths 8..256 are represented exactly.           *)
(* Every call returns a record [st, err, val]: st is "ok", "err" or        *)
(* "panic"; err is the error text; val is the returned byte slice.         *)
(***************************************************************************)
EXTENDS Integers, Sequences, FiniteSets, TLC

VARIABLES typedData, input, output

vars == <<typedData, input, output>>

---------------------------------------------------------------------------
(* Strings and bytes                                                       *)

\* the printable ASCII characters 32..126; the double quote, the backslash and
\* the backtick are named, since they cannot stand in a one-character string
Printable ==
    <<" ","!">> \o <<"quote">> \o <<"#","$","%","&","'","(",")","*","+",",","-",".","/","0","1","2","3","4","5","6","7","8","9",":",";","<","=",">","?","@","A","B","C","D","E","F","G","H","I","J","K","L","M","N","O","P","Q","R","S","T","U","V","W","X","Y","Z","[">> \o
    <<"backslash">> \o <<"]","^","_">> \o <<"backtick">> \o <<"a","b","c","d","e","f","g","h","i","j","k","l","m","n","o","p","q","r","s","t","u","v","w","x","y","z","{","|","}","~">>

CharSet == {Printable[i] : i \in 1..Len(Printable)}

OrdTable == [c \in CharSet |-> CHOOSE i \in 32..126 : Printable[i - 31] = c]

Ord(c) == OrdTable[c]

\* []byte(s)
Bytes(s) == [i \in 1..Len(s) |-> Ord(s[i])]

\* string(b) for printable bytes
Text(b) == [i \in 1..Len(b) |-> Printable[b[i] - 31]]

Reverse(s) == [i \in 1..Len(s) |-> s[Len(s) + 1 - i]]

Zeros(n) == [i \in 1..n |-> 0]

RECURSIVE Concat(_)
Concat(ss) == IF ss = <<>> THEN <<>> ELSE Head(ss) \o Concat(Tail(ss))

HasPrefix(s, p) == Len(s) >= Len(p) /\ SubSeq(s, 1, Len(p)) = p

HasSuffix(s, p) == Len(s) >= Len(p) /\ SubSeq(s, Len(s) - Len(p) + 1, Len(s)) = p

TrimPrefix(s, p) == IF HasPrefix(s, p) THEN SubSeq(s, Len(p) + 1, Len(s)) ELSE s

TrimSuffix(s, p) == IF HasSuffix(s, p) THEN SubSeq(s, 1, Len(s) - Len(p)) ELSE s

\* strings.Split(s, sep)[0] for a one-character separator
RECURSIVE SplitFirst(_, _)
SplitFirst(s, sep) ==
    IF s = <<>> \/ Head(s) = sep THEN <<>>
    ELSE <<Head(s)>> \o SplitFirst(Tail(s), sep)

\* byte-wise string order, as sort.Strings uses it
RECURSIVE StrLess(_, _)
StrLess(a, b) ==
    IF b = <<>> THEN FALSE
    ELSE IF a = <<>> THEN TRUE
    ELSE IF Ord(Head(a)) # Ord(Head(b)) THEN Ord(Head(a)) < Ord(Head(b))
    ELSE StrLess(Tail(a), Tail(b))

RECURSIVE InsertSorted(_, _)
InsertSorted(x, s) ==
    IF s = <<>> THEN <<x>>
    ELSE IF StrLess(Head(s), x) THEN <<Head(s)>> \o InsertSorted(x, Tail(s))
    ELSE <<x>> \o s

RECURSIVE SortStrings(_)
SortStrings(s) == IF s = <<>> THEN <<>> ELSE InsertSorted(Head(s), SortStrings(Tail(s)))

Digits == <<"0","1","2","3","4","5","6","7","8","9">>

IsDigit(c) == Ord(c) >= 48 /\ Ord(c) <= 57

DigitVal(c) == Ord(c) - 48

IsUpper(c) == Ord(c) >= 65 /\ Ord(c) <= 90

IsLower(c) == Ord(c) >= 97 /\ Ord(c) <= 122

\* \w of the regexp package
IsWord(c) == IsDigit(c) \/ IsUpper(c) \/ IsLower(c) \/ c = "_"

IsHexChar(c) ==
    \/ IsDigit(c)
    \/ (Ord(c) >= 97 /\ Ord(c) <= 102)
    \/ (Ord(c) >= 65 /\ Ord(c) <= 70)

HexVal(c) ==
    IF IsDigit(c) THEN Ord(c) - 48
    ELSE IF IsLower(c) THEN Ord(c) - 87
    ELSE Ord(c) - 55

HexDigits == <<"0","1","2","3","4","5","6","7","8","9","a","b","c","d","e","f">>

\* strconv.Itoa
RECURSIVE ItoaNat(_)
ItoaNat(n) == IF n < 10 THEN <<Digits[n + 1]>> ELSE ItoaNat(n \div 10) \o <<Digits[(n % 10) + 1]>>

Itoa(n) == IF n < 0 THEN <<"-">> \o ItoaNat(0 - n) ELSE ItoaNat(n)

RECURSIVE AtoiDigits(_, _)
AtoiDigits(s, acc) ==
    IF s = <<>> THEN acc ELSE AtoiDigits(Tail(s), acc * 10 + DigitVal(Head(s)))

\* strconv.Atoi: an optional sign and at least one decimal digit
Atoi(s) ==
    LET signed == s # <<>> /\ Head(s) \in {"+", "-"}
        body == IF signed THEN Tail(s) ELSE s
        n == AtoiDigits(body, 0)
    IN  IF body = <<>> \/ \E i \in 1..Len(body) : ~IsDigit(body[i])
        THEN [ok |-> FALSE, n |-> 0]
        ELSE [ok |-> TRUE, n |-> IF signed /\ Head(s) = "-" THEN 0 - n ELSE n]

Ok(v) == [st |-> "ok", err |-> <<>>, val |-> v]

Err(e) == [st |-> "err", err |-> e, val |-> <<>>]

Panic(e) == [st |-> "panic", err |-> e, val |-> <<>>]

---------------------------------------------------------------------------
(* Big integers: [neg, abs] with abs the big-endian magnitude without      *)
(* leading zero bytes, as big.Int.Bytes returns it                         *)

RECURSIVE TrimZeros(_)
TrimZeros(b) == IF b # <<>> /\ Head(b) = 0 THEN TrimZeros(Tail(b)) ELSE b

BigZero == [neg |-> FALSE, abs |-> <<>>]

Big(neg, abs) ==
    LET a == TrimZeros(abs) IN [neg |-> (neg /\ a # <<>>), abs |-> a]

RECURSIVE BitLen8(_)
BitLen8(b) == IF b = 0 THEN 0 ELSE 1 + BitLen8(b \div 2)

\* big.Int.BitLen: the length of the absolute value in bits
BitLen(x) == IF x.abs = <<>> THEN 0 ELSE 8 * (Len(x.abs) - 1) + BitLen8(x.abs[1])

\* big.Int.Sign
Sign(x) == IF x.abs = <<>> THEN 0 ELSE IF x.neg THEN 0 - 1 ELSE 1

\* little-endian magnitude * m + carry
RECURSIVE MulAddLE(_, _, _)
MulAddLE(le, m, carry) ==
    IF le = <<>>
    THEN IF carry = 0 THEN <<>> ELSE <<carry % 256>> \o MulAddLE(<<>>, m, carry \div 256)
    ELSE LET t == le[1] * m + carry
         IN  <<t % 256>> \o MulAddLE(Tail(le), m, t \div 256)

RECURSIVE Pow10(_)
Pow10(k) == IF k = 0 THEN 1 ELSE 10 * Pow10(k - 1)

\* the magnitude of a decimal numeral, read six digits at a time
RECURSIVE ParseDecimal(_, _)
ParseDecimal(s, le) ==
    IF s = <<>> THEN le
    ELSE LET k == IF Len(s) < 6 THEN Len(s) ELSE 6
         IN  ParseDecimal(SubSeq(s, k + 1, Len(s)),
                          MulAddLE(le, Pow10(k), AtoiDigits(SubSeq(s, 1, k), 0)))

\* the magnitude of a hex numeral: two digits to the byte
ParseHex(s) ==
    LET even == IF Len(s) % 2 = 1 THEN <<"0">> \o s ELSE s
    IN  [i \in 1..(Len(even) \div 2) |-> 16 * HexVal(even[2 * i - 1]) + HexVal(even[2 * i])]

\* big.Int.SetString(s, base) for base 10 and 16: an optional sign, then
\* at least one digit of the base and nothing else
SetString(s, base) ==
    LET signed == s # <<>> /\ Head(s) \in {"+", "-"}
        body == IF signed THEN Tail(s) ELSE s
        good == body # <<>> /\ \A i \in 1..Len(body) :
                    IF base = 10 THEN IsDigit(body[i]) ELSE IsHexChar(body[i])
    IN  IF ~good THEN [ok |-> FALSE, b |-> BigZero]
        ELSE [ok |-> TRUE,
              b |-> Big(signed /\ Head(s) = "-",
                        IF base = 10 THEN Reverse(ParseDecimal(body, <<>>)) ELSE ParseHex(body))]

\* math.ParseBig256
ParseBig256(s) ==
    IF s = <<>> THEN [ok |-> TRUE, b |-> BigZero]
    ELSE LET Bounded(r) ==
                 IF r.ok /\ BitLen(r.b) > 256 THEN [ok |-> FALSE, b |-> BigZero] ELSE r
         IN  Bounded(IF Len(s) >= 2 /\ SubSeq(s, 1, 2) \in {<<"0","x">>, <<"0","X">>}
                     THEN SetString(SubSeq(s, 3, Len(s)), 16)
                     ELSE SetString(s, 10))

RECURSIVE NatBytes(_)
NatBytes(n) == IF n = 0 THEN <<>> ELSE NatBytes(n \div 256) \o <<n % 256>>

\* big.NewInt
NewInt(i) == IF i < 0 THEN Big(TRUE, NatBytes(0 - i)) ELSE Big(FALSE, NatBytes(i))

\* new(big.Int).SetBytes
SetBytes(b) == Big(FALSE, b)

LeftPad(b, n) == IF Len(b) >= n THEN b ELSE Zeros(n - Len(b)) \o b

\* the low n bytes of a magnitude
LowBytes(b, n) == IF Len(b) > n THEN SubSeq(b, Len(b) - n + 1, Len(b)) ELSE LeftPad(b, n)

\* little-endian increment modulo 256^Len
RECURSIVE IncLE(_)
IncLE(le) ==
    IF le = <<>> THEN <<>>
    ELSE IF le[1] = 255 THEN <<0>> \o IncLE(Tail(le))
    ELSE <<le[1] + 1>> \o Tail(le)

\* math.U256: x and (2^256 - 1) in two's complement
U256(x) ==
    LET low == LowBytes(x.abs, 32)
        inv == [i \in 1..32 |-> 255 - low[i]]
    IN  IF x.neg THEN Big(FALSE, Reverse(IncLE(Reverse(inv)))) ELSE Big(FALSE, low)

\* math.PaddedBigBytes
PaddedBigBytes(x, n) == IF BitLen(x) \div 8 >= n THEN x.abs ELSE LeftPad(x.abs, n)

\* math.U256Bytes
U256Bytes(x) == PaddedBigBytes(U256(x), 32)

---------------------------------------------------------------------------
(* Hex and addresses                                                       *)

AddressLength == 20

has0xPrefix(s) == Len(s) >= 2 /\ s[1] = "0" /\ s[2] \in {"x", "X"}

\* hex.DecodeString on an even number of hex characters
HexBytes(s) == [i \in 1..(Len(s) \div 2) |-> 16 * HexVal(s[2 * i - 1]) + HexVal(s[2 * i])]

\* hexutil.Decode
hexutil_Decode(s) ==
    IF s = <<>> THEN Err(<<"e","m","p","t","y"," ","h","e","x"," ","s","t","r","i","n","g">>)
    ELSE IF ~has0xPrefix(s) THEN Err(<<"h","e","x"," ","s","t","r","i","n","g"," ","w","i","t","h","o","u","t"," ","0","x"," ","p","r","e","f","i","x">>)
    ELSE LET h == SubSeq(s, 3, Len(s))
         IN  IF \E i \in 1..Len(h) : ~IsHexChar(h[i]) THEN Err(<<"i","n","v","a","l","i","d"," ","h","e","x"," ","s","t","r","i","n","g">>)
             ELSE IF Len(h) % 2 = 1 THEN Err(<<"h","e","x"," ","s","t","r","i","n","g"," ","o","f"," ","o","d","d"," ","l","e","n","g","t","h">>)
             ELSE Ok(HexBytes(h))

\* hex.EncodeToString
HexText(b) ==
    Concat([i \in 1..Len(b) |-> <<HexDigits[(b[i] \div 16) + 1], HexDigits[(b[i] % 16) + 1]>>])

\* hexutil.Encode
hexutil_Encode(b) == <<"0","x">> \o HexText(b)

\* common.IsHexAddress
IsHexAddress(s) ==
    LET h == IF has0xPrefix(s) THEN SubSeq(s, 3, Len(s)) ELSE s
    IN  Len(h) = 2 * AddressLength /\ \A i \in 1..Len(h) : IsHexChar(h[i])

\* common.BytesToAddress: the low 20 bytes, left-padded
BytesToAddress(b) == LowBytes(b, AddressLength)

\* common.HexToAddress on a string IsHexAddress accepts
HexToAddress(s) ==
    BytesToAddress(HexBytes(IF has0xPrefix(s) THEN SubSeq(s, 3, Len(s)) ELSE s))

---------------------------------------------------------------------------
(* crypto.Keccak256 is represented by a digest of the same shape: 32 bytes *)
(* that are a function of the input bytes.  Only its length and its being  *)
(* a function of the input are used.                                       *)

RECURSIVE Mix(_, _, _)
Mix(b, lo, hi) ==
    IF lo > hi THEN 0
    ELSE IF lo = hi THEN ((b[lo] + 1) * (lo + 16)) % 65521
    ELSE LET mid == (lo + hi) \div 2
         IN  (Mix(b, lo, mid) + 31 * Mix(b, mid + 1, hi)) % 65521

Keccak256(b) ==
    LET sum == Mix(b, 1, Len(b))
    IN  [i \in 1..32 |-> (sum * i + 31 * Len(b) + i) % 256]

---------------------------------------------------------------------------
(* The primitive type registry                                             *)

RegistryAddressBoolString ==
    {
    <<"a","d","d","r","e","s","s">>, <<"a","d","d","r","e","s","s","[","]">>, <<"b","o","o","l">>, <<"b","o","o","l","[","]">>,
    <<"s","t","r","i","n","g">>, <<"s","t","r","i","n","g","[","]">>
    }

RegistryBytesN ==
    {
    <<"b","y","t","e","s">>, <<"b","y","t","e","s","[","]">>, <<"b","y","t","e","s","1">>, <<"b","y","t","e","s","1","[","]">>,
    <<"b","y","t","e","s","2">>, <<"b","y","t","e","s","2","[","]">>, <<"b","y","t","e","s","3">>, <<"b","y","t","e","s","3","[","]">>,
    <<"b","y","t","e","s","4">>, <<"b","y","t","e","s","4","[","]">>, <<"b","y","t","e","s","5">>, <<"b","y","t","e","s","5","[","]">>,
    <<"b","y","t","e","s","6">>, <<"b","y","t","e","s","6","[","]">>, <<"b","y","t","e","s","7">>, <<"b","y","t","e","s","7","[","]">>,
    <<"b","y","t","e","s","8">>, <<"b","y","t","e","s","8","[","]">>, <<"b","y","t","e","s","9">>, <<"b","y","t","e","s","9","[","]">>,
    <<"b","y","t","e","s","1","0">>, <<"b","y","t","e","s","1","0","[","]">>, <<"b","y","t","e","s","1","1">>, <<"b","y","t","e","s","1","1","[","]">>,
    <<"b","y","t","e","s","1","2">>, <<"b","y","t","e","s","1","2","[","]">>, <<"b","y","t","e","s","1","3">>, <<"b","y","t","e","s","1","3","[","]">>,
    <<"b","y","t","e","s","1","4">>, <<"b","y","t","e","s","1","4","[","]">>, <<"b","y","t","e","s","1","5">>, <<"b","y","t","e","s","1","5","[","]">>,
    <<"b","y","t","e","s","1","6">>, <<"b","y","t","e","s","1","6","[","]">>, <<"b","y","t","e","s","1","7">>, <<"b","y","t","e","s","1","7","[","]">>,
    <<"b","y","t","e","s","1","8">>, <<"b","y","t","e","s","1","8","[","]">>, <<"b","y","t","e","s","1","9">>, <<"b","y","t","e","s","1","9","[","]">>,
    <<"b","y","t","e","s","2","0">>, <<"b","y","t","e","s","2","0","[","]">>, <<"b","y","t","e","s","2","1">>, <<"b","y","t","e","s","2","1","[","]">>,
    <<"b","y","t","e","s","2","2">>, <<"b","y","t","e","s","2","2","[","]">>, <<"b","y","t","e","s","2","3">>, <<"b","y","t","e","s","2","3","[","]">>,
    <<"b","y","t","e","s","2","4">>, <<"b","y","t","e","s","2","4","[","]">>, <<"b","y","t","e","s","2","5">>, <<"b","y","t","e","s","2","5","[","]">>,
    <<"b","y","t","e","s","2","6">>, <<"b","y","t","e","s","2","6","[","]">>, <<"b","y","t","e","s","2","7">>, <<"b","y","t","e","s","2","7","[","]">>,
    <<"b","y","t","e","s","2","8">>, <<"b","y","t","e","s","2","8","[","]">>, <<"b","y","t","e","s","2","9">>, <<"b","y","t","e","s","2","9","[","]">>,
    <<"b","y","t","e","s","3","0">>, <<"b","y","t","e","s","3","0","[","]">>, <<"b","y","t","e","s","3","1">>, <<"b","y","t","e","s","3","1","[","]">>,
    <<"b","y","t","e","s","3","2">>, <<"b","y","t","e","s","3","2","[","]">>
    }

RegistryIntN ==
    {
    <<"i","n","t">>, <<"i","n","t","[","]">>, <<"i","n","t","8">>, <<"i","n","t","8","[","]">>,
    <<"i","n","t","1","6">>, <<"i","n","t","1","6","[","]">>, <<"i","n","t","3","2">>, <<"i","n","t","3","2","[","]">>,
    <<"i","n","t","6","4">>, <<"i","n","t","6","4","[","]">>, <<"i","n","t","1","2","8">>, <<"i","n","t","1","2","8","[","]">>,
    <<"i","n","t","2","5","6">>, <<"i","n","t","2","5","6","[","]">>
    }

RegistryUintN ==
    {
    <<"u","i","n","t">>, <<"u","i","n","t","[","]">>, <<"u","i","n","t","8">>, <<"u","i","n","t","8","[","]">>,
    <<"u","i","n","t","1","6">>, <<"u","i","n","t","1","6","[","]">>, <<"u","i","n","t","3","2">>, <<"u","i","n","t","3","2","[","]">>,
    <<"u","i","n","t","6","4">>, <<"u","i","n","t","6","4","[","]">>, <<"u","i","n","t","1","2","8">>, <<"u","i","n","t","1","2","8","[","]">>,
    <<"u","i","n","t","2","5","6">>, <<"u","i","n","t","2","5","6","[","]">>
    }

\* Checks if the primitive value is valid
isPrimitiveTypeValid(primitiveType) ==
    \/ primitiveType \in RegistryAddressBoolString
    \/ primitiveType \in RegistryBytesN
    \/ primitiveType \in RegistryIntN
    \/ primitiveType \in RegistryUintN

---------------------------------------------------------------------------
(* Type descriptors and the type dictionary.  A dictionary is a function   *)
(* from its keys to sequences of [Name, Type]; a document is a record      *)
(* [Types, PrimaryType, Domain, Message].                                  *)

Quote(s) == <<"quote">> \o s \o <<"quote">>

isArray(t) == HasSuffix(t.Type, <<"[","]">>)

\* typeName returns the canonical name of the type: 'Person' for 'Person[]'
typeName(t) == IF HasSuffix(t.Type, <<"[","]">>) THEN TrimSuffix(t.Type, <<"[","]">>) ELSE t.Type

\* Reference types must have a leading uppercase character
isReferenceType(t) == IF Len(t.Type) = 0 THEN FALSE ELSE IsUpper(t.Type[1])

\* ^[A-Z](\w*)(\[\])?$
typedDataReferenceTypeRegexp(s) ==
    LET base == IF HasSuffix(s, <<"[","]">>) THEN TrimSuffix(s, <<"[","]">>) ELSE s
        matches(w) == w # <<>> /\ Ord(w[1]) >= 65 /\ Ord(w[1]) <= 90
                      /\ \A i \in 2..Len(w) : IsWord(w[i])
    IN  matches(s) \/ matches(base)

\* t[key] == nil: a key that is absent yields the nil slice
IsNilEntry(t, key) == key \notin DOMAIN t

FieldsOf(t, key) == IF key \in DOMAIN t THEN t[key] ELSE <<>>

\* the checks of Types.validate on one descriptor
ValidateTypeObjNoRegexp(t, typeKey, i, typeObj) ==
    IF Len(typeObj.Type) = 0
    THEN Err(<<"t","y","p","e"," ">> \o Quote(typeKey) \o <<":">> \o Itoa(i) \o <<":"," ","e","m","p","t","y"," ","T","y","p","e">>)
    ELSE IF Len(typeObj.Name) = 0
    THEN Err(<<"t","y","p","e"," ">> \o Quote(typeKey) \o <<":">> \o Itoa(i) \o <<":"," ","e","m","p","t","y"," ","N","a","m","e">>)
    ELSE IF typeKey = typeObj.Type
    THEN Err(<<"t","y","p","e"," ">> \o Quote(typeObj.Type) \o <<" ","c","a","n","n","o","t"," ","r","e","f","e","r","e","n","c","e"," ","i","t","s","e","l","f">>)
    ELSE IF isReferenceType(typeObj)
    THEN IF typeName(typeObj) \notin DOMAIN t
         THEN Err(<<"r","e","f","e","r","e","n","c","e"," ","t","y","p","e"," ">> \o Quote(typeObj.Type) \o <<" ","i","s"," ","u","n","d","e","f","i","n","e","d">>)
         ELSE Ok(<<>>)
    ELSE IF ~isPrimitiveTypeValid(typeObj.Type)
    THEN Err(<<"u","n","k","n","o","w","n"," ","t","y","p","e"," ">> \o Quote(typeObj.Type))
    ELSE Ok(<<>>)

ValidateTypeObj(t, typeKey, i, typeObj) ==
    IF Len(typeObj.Type) = 0
    THEN Err(<<"t","y","p","e"," ">> \o Quote(typeKey) \o <<":">> \o Itoa(i) \o <<":"," ","e","m","p","t","y"," ","T","y","p","e">>)
    ELSE IF Len(typeObj.Name) = 0
    THEN Err(<<"t","y","p","e"," ">> \o Quote(typeKey) \o <<":">> \o Itoa(i) \o <<":"," ","e","m","p","t","y"," ","N","a","m","e">>)
    ELSE IF typeKey = typeObj.Type
    THEN Err(<<"t","y","p","e"," ">> \o Quote(typeObj.Type) \o <<" ","c","a","n","n","o","t"," ","r","e","f","e","r","e","n","c","e"," ","i","t","s","e","l","f">>)
    ELSE IF isReferenceType(typeObj)
    THEN IF typeName(typeObj) \notin DOMAIN t
         THEN Err(<<"r","e","f","e","r","e","n","c","e"," ","t","y","p","e"," ">> \o Quote(typeObj.Type) \o <<" ","i","s"," ","u","n","d","e","f","i","n","e","d">>)
         ELSE IF ~typedDataReferenceTypeRegexp(typeObj.Type)
         THEN Err(<<"u","n","k","n","o","w","n"," ","r","e","f","e","r","e","n","c","e"," ","t","y","p","e"," ">> \o Quote(typeObj.Type))
         ELSE Ok(<<>>)
    ELSE IF ~isPrimitiveTypeValid(typeObj.Type)
    THEN Err(<<"u","n","k","n","o","w","n"," ","t","y","p","e"," ">> \o Quote(typeObj.Type))
    ELSE Ok(<<>>)

\* the inner loop of Types.validate over the descriptors of one key
RECURSIVE ValidateTypeArr(_, _, _)
ValidateTypeArr(t, typeKey, i) ==
    IF i >= Len(t[typeKey]) THEN Ok(<<>>)
    ELSE LET Checked(r) == IF r.st # "ok" THEN r ELSE ValidateTypeArr(t, typeKey, i + 1)
         IN  Checked(ValidateTypeObj(t, typeKey, i, t[typeKey][i + 1]))

\* Types.validate: the keys are visited in the order the map iteration
\* yields them, which the language leaves unspecified; order is that order
RECURSIVE Types_validate(_, _)
Types_validate(t, order) ==
    IF order = <<>> THEN Ok(<<>>)
    ELSE LET typeKey == Head(order)
         IN  IF Len(typeKey) = 0 THEN Err(<<"e","m","p","t","y"," ","t","y","p","e"," ","k","e","y">>)
             ELSE LET Checked(r) == IF r.st # "ok" THEN r ELSE Types_validate(t, Tail(order))
                  IN  Checked(ValidateTypeArr(t, typeKey, 0))

\* the orders in which a map iteration can yield the keys
RECURSIVE KeyOrders(_)
KeyOrders(keys) ==
    IF keys = {} THEN {<<>>}
    ELSE UNION {{<<k>> \o o : o \in KeyOrders(keys \ {k})} : k \in keys}

\* validate checks if the given domain is valid.  ChainId is <<>> for the
\* nil pointer and <<b>> for a pointer to b.
TypedDataDomain_validate(domain) ==
    IF Len(domain.Name) = 0 /\ Len(domain.Version) = 0
       /\ Len(domain.VerifyingContract) = 0 /\ Len(domain.Salt) = 0
    THEN Err(<<"d","o","m","a","i","n"," ","i","s"," ","u","n","d","e","f","i","n","e","d">>)
    ELSE Ok(<<>>)

\* validate makes sure the types are sound
TypedData_validate(td, order) ==
    LET Checked(r) == IF r.st # "ok" THEN r ELSE TypedDataDomain_validate(td.Domain)
    IN  Checked(Types_validate(td.Types, order))

---------------------------------------------------------------------------
(* Dependencies, EncodeType, TypeHash                                      *)

includes(arr, str) == \E i \in 1..Len(arr) : arr[i] = str

\* the loop that appends the dependencies not yet found
RECURSIVE AppendNew(_, _)
AppendNew(found, deps) ==
    IF deps = <<>> THEN found
    ELSE AppendNew(IF includes(found, Head(deps)) THEN found ELSE Append(found, Head(deps)),
                   Tail(deps))

\* Dependencies returns the custom types in the order of their discovery
RECURSIVE Dependencies(_, _, _)
RECURSIVE DependenciesOfFields(_, _, _)
Dependencies(t, primaryType, found) ==
    IF includes(found, primaryType) THEN found
    ELSE IF IsNilEntry(t, primaryType) THEN found
    ELSE DependenciesOfFields(t, t[primaryType], Append(found, primaryType))

DependenciesOfFields(t, fields, found) ==
    IF fields = <<>> THEN found
    ELSE DependenciesOfFields(t, Tail(fields),
             AppendNew(found, Dependencies(t, Head(fields).Type, found)))

\* the canonical order: primary first, then alphabetical
SortedDeps(t, primaryType) ==
    LET deps == Dependencies(t, primaryType, <<>>)
    IN  IF Len(deps) > 0 THEN <<primaryType>> \o SortStrings(Tail(deps)) ELSE deps

\* bytes.Buffer.Truncate panics when n is negative or beyond the length
Truncate(buffer, n) ==
    IF n < 0 \/ n > Len(buffer) THEN Panic(<<"b","y","t","e","s",".","B","u","f","f","e","r",":"," ","t","r","u","n","c","a","t","i","o","n"," ","o","u","t"," ","o","f"," ","r","a","n","g","e">>)
    ELSE Ok(SubSeq(buffer, 1, n))

RECURSIVE WriteMembers(_, _)
WriteMembers(buffer, fields) ==
    IF fields = <<>> THEN buffer
    ELSE WriteMembers(buffer \o Head(fields).Type \o <<" ">> \o Head(fields).Name \o <<",">>,
                      Tail(fields))

RECURSIVE WriteDeps(_, _, _)
WriteDeps(t, deps, buffer) ==
    IF deps = <<>> THEN Ok(buffer)
    ELSE LET dep == Head(deps)
             written == WriteMembers(buffer \o dep \o <<"(">>, FieldsOf(t, dep))
             cut == Truncate(written, Len(written) - 1)
         IN  IF cut.st # "ok" THEN cut
             ELSE WriteDeps(t, Tail(deps), cut.val \o <<")">>)

\* EncodeType: name ( member1 , member2 , ... ) for the primary type and
\* then for each dependency; val is the text written
EncodeType(t, primaryType) == WriteDeps(t, SortedDeps(t, primaryType), <<>>)

\* TypeHash creates the keccak256 hash of the data
TypeHash(t, primaryType) ==
    LET Hashed(e) == IF e.st # "ok" THEN e ELSE Ok(Keccak256(Bytes(e.val)))
    IN  Hashed(EncodeType(t, primaryType))

---------------------------------------------------------------------------
(* Message values (interface{}): a record with the dynamic type in kind    *)

NilValue == [kind |-> "nil"]

StringValue(s) == [kind |-> "string", s |-> s]

BoolValue(t) == [kind |-> "bool", t |-> t]

\* a float64 holding twice / 2, so that whole and fractional numbers occur
Float64Value(twice) == [kind |-> "float64", twice |-> twice]

\* a *math.HexOrDecimal256; p is <<>> for the nil pointer
BigValue(x) == [kind |-> "*math.HexOrDecimal256", p |-> <<x>>]

NilBigValue == [kind |-> "*math.HexOrDecimal256", p |-> <<>>]

ByteSliceValue(b) == [kind |-> "[]uint8", b |-> b]

HexBytesValue(b) == [kind |-> "hexutil.Bytes", b |-> b]

ArrayValue(items) == [kind |-> "[]interface {}", items |-> items]

\* a map[string]interface{}: m is a function from its keys to values
MapValue(m) == [kind |-> "map[string]interface {}", m |-> m]

EmptyMap == [k \in {} |-> NilValue]

MapIndexZeroValue(data, name) ==
    IF name \in DOMAIN data THEN data[name] ELSE StringValue(<<>>)

\* data[name]: the nil interface when the key is absent
MapIndex(data, name) == IF name \in DOMAIN data THEN data[name] ELSE NilValue

\* reflect.TypeOf(v) as %v prints it
TypeOfText(v) ==
    CASE v.kind = "nil" -> <<"<","n","i","l",">">>
      [] v.kind = "string" -> <<"s","t","r","i","n","g">>
      [] v.kind = "bool" -> <<"b","o","o","l">>
      [] v.kind = "float64" -> <<"f","l","o","a","t","6","4">>
      [] v.kind = "*math.HexOrDecimal256" -> <<"*","m","a","t","h",".","H","e","x","O","r","D","e","c","i","m","a","l","2","5","6">>
      [] v.kind = "[]uint8" -> <<"[","]","u","i","n","t","8">>
      [] v.kind = "hexutil.Bytes" -> <<"h","e","x","u","t","i","l",".","B","y","t","e","s">>
      [] v.kind = "[]interface {}" -> <<"[","]","i","n","t","e","r","f","a","c","e"," ","{","}">>
      [] OTHER -> <<"m","a","p","[","s","t","r","i","n","g","]","i","n","t","e","r","f","a","c","e"," ","{","}">>

RECURSIVE JoinSpace(_)
JoinSpace(ss) ==
    IF ss = <<>> THEN <<>>
    ELSE IF Len(ss) = 1 THEN Head(ss)
    ELSE Head(ss) \o <<" ">> \o JoinSpace(Tail(ss))

\* the %v rendering of a value; composite values are rendered by their
\* elements, a big integer by its sign and magnitude bytes
RECURSIVE FormatValue(_)
FormatValue(v) ==
    CASE v.kind = "nil" -> <<"<","n","i","l",">">>
      [] v.kind = "string" -> v.s
      [] v.kind = "bool" -> IF v.t THEN <<"t","r","u","e">> ELSE <<"f","a","l","s","e">>
      [] v.kind = "float64" ->
            IF v.twice % 2 = 0 THEN Itoa(v.twice \div 2)
            ELSE (IF v.twice < 0 THEN <<"-">> ELSE <<>>)
                 \o ItoaNat((IF v.twice < 0 THEN 0 - v.twice ELSE v.twice) \div 2) \o <<".","5">>
      [] v.kind = "*math.HexOrDecimal256" ->
            IF v.p = <<>> THEN <<"<","n","i","l",">">>
            ELSE <<"&","{">> \o (IF v.p[1].neg THEN <<"t","r","u","e">> ELSE <<"f","a","l","s","e">>) \o <<" ","[">>
                 \o JoinSpace([i \in 1..Len(v.p[1].abs) |-> Itoa(v.p[1].abs[i])]) \o <<"]","}">>
      [] v.kind = "[]uint8" -> <<"[">> \o JoinSpace([i \in 1..Len(v.b) |-> Itoa(v.b[i])]) \o <<"]">>
      [] v.kind = "hexutil.Bytes" -> hexutil_Encode(v.b)
      [] v.kind = "[]interface {}" ->
            <<"[">> \o JoinSpace([i \in 1..Len(v.items) |-> FormatValue(v.items[i])]) \o <<"]">>
      [] OTHER ->
            LET keys == SortStrings(CHOOSE o \in KeyOrders(DOMAIN v.m) : TRUE)
            IN  <<"m","a","p","[">> \o JoinSpace([i \in 1..Len(keys) |->
                                keys[i] \o <<":">> \o FormatValue(v.m[keys[i]])]) \o <<"]">>

\* dataMismatchError generates an error for a mismatch between
\* the provided type and data
dataMismatchError(encType, encValue) ==
    Err(<<"p","r","o","v","i","d","e","d"," ","d","a","t","a"," ","'">> \o FormatValue(encValue) \o <<"'"," ","d","o","e","s","n","'","t"," ","m","a","t","c","h"," ","t","y","p","e"," ","'">> \o encType \o <<"'">>)

---------------------------------------------------------------------------
(* parseInteger and EncodePrimitiveValue                                   *)

Big0 == BigZero

Big1 == NewInt(1)

\* the declared width: 256 for int and uint, else the digits after the
\* prefix read by strconv.Atoi
IntegerLength(encType) ==
    IF encType = <<"i","n","t">> \/ encType = <<"u","i","n","t">> THEN [ok |-> TRUE, n |-> 256, str |-> <<>>]
    ELSE LET lengthStr == IF HasPrefix(encType, <<"u","i","n","t">>)
                          THEN TrimPrefix(encType, <<"u","i","n","t">>)
                          ELSE TrimPrefix(encType, <<"i","n","t">>)
             Sized(a) == [ok |-> a.ok, n |-> a.n, str |-> lengthStr]
         IN  Sized(Atoi(lengthStr))

\* the type switch of parseInteger: b is <<>> while b == nil
IntegerOf(encType, encValue) ==
    CASE encValue.kind = "*math.HexOrDecimal256" -> [st |-> "ok", err |-> <<>>, b |-> encValue.p]
      [] encValue.kind = "string" ->
            LET Parsed(r) ==
                    IF ~r.ok
                    THEN [st |-> "err", b |-> <<>>,
                          err |-> <<"i","n","v","a","l","i","d"," ","h","e","x"," ","o","r"," ","d","e","c","i","m","a","l"," ","i","n","t","e","g","e","r"," ">> \o Quote(encValue.s)]
                    ELSE [st |-> "ok", err |-> <<>>, b |-> <<r.b>>]
            IN  Parsed(ParseBig256(encValue.s))
      [] encValue.kind = "float64" ->
            IF encValue.twice % 2 = 0
            THEN [st |-> "ok", err |-> <<>>, b |-> <<NewInt(encValue.twice \div 2)>>]
            ELSE [st |-> "err", b |-> <<>>,
                  err |-> <<"i","n","v","a","l","i","d"," ","f","l","o","a","t"," ","v","a","l","u","e"," ">> \o FormatValue(encValue)
                          \o <<" ","f","o","r"," ","t","y","p","e"," ">> \o encType]
      [] OTHER -> [st |-> "ok", err |-> <<>>, b |-> <<>>]

parseIntegerNoWidthCheck(encType, encValue) ==
    LET signed == HasPrefix(encType, <<"i","n","t">>)
        Checked(length, v) ==
            IF ~length.ok
            THEN [st |-> "err", b |-> BigZero, err |-> <<"i","n","v","a","l","i","d"," ","s","i","z","e"," ","o","n"," ","i","n","t","e","g","e","r",":"," ">> \o length.str]
            ELSE IF v.st # "ok" THEN [st |-> "err", b |-> BigZero, err |-> v.err]
            ELSE IF v.b = <<>>
            THEN [st |-> "err", b |-> BigZero,
                  err |-> <<"i","n","v","a","l","i","d"," ","i","n","t","e","g","e","r"," ","v","a","l","u","e"," ">> \o FormatValue(encValue) \o <<"/">>
                          \o TypeOfText(encValue) \o <<" ","f","o","r"," ","t","y","p","e"," ">> \o encType]
            ELSE IF ~signed /\ Sign(v.b[1]) = 0 - 1
            THEN [st |-> "err", b |-> BigZero,
                  err |-> <<"i","n","v","a","l","i","d"," ","n","e","g","a","t","i","v","e"," ","v","a","l","u","e"," ","f","o","r"," ","u","n","s","i","g","n","e","d"," ","t","y","p","e"," ">> \o encType]
            ELSE [st |-> "ok", err |-> <<>>, b |-> v.b[1]]
    IN  Checked(IntegerLength(encType), IntegerOf(encType, encValue))

parseInteger(encType, encValue) ==
    LET signed == HasPrefix(encType, <<"i","n","t">>)
        Checked(length, v) ==
            IF ~length.ok
            THEN [st |-> "err", b |-> BigZero, err |-> <<"i","n","v","a","l","i","d"," ","s","i","z","e"," ","o","n"," ","i","n","t","e","g","e","r",":"," ">> \o length.str]
            ELSE IF v.st # "ok" THEN [st |-> "err", b |-> BigZero, err |-> v.err]
            ELSE IF v.b = <<>>
            THEN [st |-> "err", b |-> BigZero,
                  err |-> <<"i","n","v","a","l","i","d"," ","i","n","t","e","g","e","r"," ","v","a","l","u","e"," ">> \o FormatValue(encValue) \o <<"/">>
                          \o TypeOfText(encValue) \o <<" ","f","o","r"," ","t","y","p","e"," ">> \o encType]
            ELSE IF BitLen(v.b[1]) > length.n
            THEN [st |-> "err", b |-> BigZero, err |-> <<"i","n","t","e","g","e","r"," ","l","a","r","g","e","r"," ","t","h","a","n"," ","'">> \o encType \o <<"'">>]
            ELSE IF ~signed /\ Sign(v.b[1]) = 0 - 1
            THEN [st |-> "err", b |-> BigZero,
                  err |-> <<"i","n","v","a","l","i","d"," ","n","e","g","a","t","i","v","e"," ","v","a","l","u","e"," ","f","o","r"," ","u","n","s","i","g","n","e","d"," ","t","y","p","e"," ">> \o encType]
            ELSE [st |-> "ok", err |-> <<>>, b |-> v.b[1]]
    IN  Checked(IntegerLength(encType), IntegerOf(encType, encValue))

\* EncodePrimitiveValue deals with the primitive values found
\* while searching through the typed data
EncodePrimitiveValue(encType, encValue, depth) ==
    CASE encType = <<"a","d","d","r","e","s","s">> ->
            IF encValue.kind # "string" \/ ~IsHexAddress(encValue.s)
            THEN dataMismatchError(encType, encValue)
            ELSE Ok(Zeros(12) \o HexToAddress(encValue.s))
      [] encType = <<"b","o","o","l">> ->
            IF encValue.kind # "bool" THEN dataMismatchError(encType, encValue)
            ELSE IF encValue.t THEN Ok(PaddedBigBytes(Big1, 32))
            ELSE Ok(PaddedBigBytes(Big0, 32))
      [] encType = <<"s","t","r","i","n","g">> ->
            IF encValue.kind # "string" THEN dataMismatchError(encType, encValue)
            ELSE Ok(Keccak256(Bytes(encValue.s)))
      [] encType = <<"b","y","t","e","s">> ->
            IF encValue.kind # "[]uint8" THEN dataMismatchError(encType, encValue)
            ELSE Ok(Keccak256(encValue.b))
      [] OTHER ->
            IF HasPrefix(encType, <<"b","y","t","e","s">>)
            THEN LET lengthStr == TrimPrefix(encType, <<"b","y","t","e","s">>)
                     Sized(length) ==
                         IF ~length.ok THEN Err(<<"i","n","v","a","l","i","d"," ","s","i","z","e"," ","o","n"," ","b","y","t","e","s",":"," ">> \o lengthStr)
                         ELSE IF length.n < 0 \/ length.n > 32
                         THEN Err(<<"i","n","v","a","l","i","d"," ","s","i","z","e"," ","o","n"," ","b","y","t","e","s",":"," ">> \o Itoa(length.n))
                         ELSE IF encValue.kind # "hexutil.Bytes"
                         THEN dataMismatchError(encType, encValue)
                         ELSE Ok(PaddedBigBytes(SetBytes(encValue.b), 32))
                 IN  Sized(Atoi(lengthStr))
            ELSE IF HasPrefix(encType, <<"i","n","t">>) \/ HasPrefix(encType, <<"u","i","n","t">>)
            THEN LET Word(r) == IF r.st # "ok" THEN Err(r.err) ELSE Ok(U256Bytes(r.b))
                 IN  Word(parseInteger(encType, encValue))
            ELSE Err(<<"u","n","r","e","c","o","g","n","i","z","e","d"," ","t","y","p","e"," ","'">> \o encType \o <<"'">>)

---------------------------------------------------------------------------
(* EncodeData and HashStruct.  order is the order in which the map         *)
(* iteration of Types.validate yields the keys; a dictionary that passes   *)
(* under one order passes under every order, so the nested calls, which    *)
(* validate the same dictionary again, are given the same order.           *)

RECURSIVE EncodeData(_, _, _, _, _)
RECURSIVE EncodeDataBody(_, _, _, _, _)
RECURSIVE EncodeFields(_, _, _, _, _, _)
RECURSIVE EncodeField(_, _, _, _, _)
RECURSIVE EncodeItems(_, _, _, _, _, _)

\* the loop over the items of an array value; val is arrayBuffer
EncodeItems(td, parsedType, items, depth, order, arrayBuffer) ==
    IF items = <<>> THEN Ok(arrayBuffer)
    ELSE LET item == Head(items)
             Written(r) ==
                 IF r.st # "ok" THEN r
                 ELSE EncodeItems(td, parsedType, Tail(items), depth, order,
                                  arrayBuffer \o r.val)
         IN  Written(IF ~IsNilEntry(td.Types, parsedType)
                     THEN IF item.kind # "map[string]interface {}"
                          THEN dataMismatchError(parsedType, item)
                          ELSE EncodeData(td, parsedType, item.m, depth + 1, order)
                     ELSE EncodePrimitiveValue(parsedType, item, depth))

\* the body of the loop over the fields; val is what is written to buffer
EncodeField(td, field, data, depth, order) ==
    LET encType == field.Type
        encValue == MapIndex(data, field.Name)
        Hashed(r) == IF r.st # "ok" THEN r ELSE Ok(Keccak256(r.val))
    IN  IF Len(encType) = 0 THEN Panic(<<"s","l","i","c","e"," ","b","o","u","n","d","s"," ","o","u","t"," ","o","f"," ","r","a","n","g","e"," ","[","-","1",":","]">>)
        ELSE IF encType[Len(encType)] = "]"
        THEN IF encValue.kind # "[]interface {}" THEN dataMismatchError(encType, encValue)
             ELSE Hashed(EncodeItems(td, SplitFirst(encType, "["), encValue.items,
                                     depth, order, <<>>))
        ELSE IF ~IsNilEntry(td.Types, field.Type)
        THEN IF encValue.kind # "map[string]interface {}"
             THEN dataMismatchError(encType, encValue)
             ELSE Hashed(EncodeData(td, field.Type, encValue.m, depth + 1, order))
        ELSE EncodePrimitiveValue(encType, encValue, depth)

EncodeFields(td, fields, data, depth, order, buffer) ==
    IF fields = <<>> THEN Ok(buffer)
    ELSE LET Written(r) ==
                 IF r.st # "ok" THEN r
                 ELSE EncodeFields(td, Tail(fields), data, depth, order, buffer \o r.val)
         IN  Written(EncodeField(td, Head(fields), data, depth, order))

\* EncodeData after the validation: the extra data check, the typehash
\* and the field contents
EncodeDataBody(td, primaryType, data, depth, order) ==
    IF Len(FieldsOf(td.Types, primaryType)) < Cardinality(DOMAIN data)
    THEN Err(<<"t","h","e","r","e"," ","i","s"," ","e","x","t","r","a"," ","d","a","t","a"," ","p","r","o","v","i","d","e","d"," ","i","n"," ","t","h","e"," ","m","e","s","s","a","g","e">>)
    ELSE LET Contents(th) ==
                 IF th.st # "ok" THEN th
                 ELSE EncodeFields(td, FieldsOf(td.Types, primaryType), data, depth, order,
                                   th.val)
         IN  Contents(TypeHash(td.Types, primaryType))

EncodeDataUnvalidated(td, primaryType, data, depth, order) ==
    EncodeDataBody(td, primaryType, data, depth, order)

\* EncodeData generates the encoding enc(value1) || enc(value2) || ...
EncodeData(td, primaryType, data, depth, order) ==
    LET Validated(v) ==
            IF v.st # "ok" THEN v ELSE EncodeDataBody(td, primaryType, data, depth, order)
    IN  Validated(TypedData_validate(td, order))

\* HashStruct generates a keccak256 hash of the encoding of the provided data
HashStruct(td, primaryType, data, order) ==
    LET Hashed(r) == IF r.st # "ok" THEN r ELSE Ok(Keccak256(r.val))
    IN  Hashed(EncodeData(td, primaryType, data, 1, order))

---------------------------------------------------------------------------
(* The validator-prefix codec and the clique header helper                 *)

SignTextValidatorVersion1(validatorData) ==
    LET msg == <<25, 1>> \o validatorData.Address \o validatorData.Message
    IN  [hash |-> Keccak256(msg), msg |-> msg]

\* SignTextValidator: hash = keccak256("\x19\x00"${address}${data});
\* returns the hash and the message
SignTextValidator(validatorData) ==
    LET msg == <<25, 0>> \o validatorData.Address \o validatorData.Message
    IN  [hash |-> Keccak256(msg), msg |-> msg]

EmptyValidatorData == [Address |-> Zeros(AddressLength), Message |-> <<>>]

\* UnmarshalValidatorData converts the input to validator data
UnmarshalValidatorData(data) ==
    IF data.kind # "map[string]interface {}"
    THEN [st |-> "err", v |-> EmptyValidatorData,
          err |-> <<"v","a","l","i","d","a","t","o","r"," ","i","n","p","u","t"," ","i","s"," ","n","o","t"," ","a"," ","m","a","p","[","s","t","r","i","n","g","]","i","n","t","e","r","f","a","c","e","{","}">>]
    ELSE LET addr == MapIndex(data.m, <<"a","d","d","r","e","s","s">>)
             message == MapIndex(data.m, <<"m","e","s","s","a","g","e">>)
             Decoded(addrBytes, messageBytes) ==
                 IF addr.kind # "string"
                 THEN [st |-> "err", v |-> EmptyValidatorData,
                       err |-> <<"v","a","l","i","d","a","t","o","r"," ","a","d","d","r","e","s","s"," ","i","s"," ","n","o","t"," ","s","e","n","t"," ","a","s"," ","a"," ","s","t","r","i","n","g">>]
                 ELSE IF addrBytes.st # "ok"
                 THEN [st |-> "err", v |-> EmptyValidatorData, err |-> addrBytes.err]
                 ELSE IF Len(addrBytes.val) = 0
                 THEN [st |-> "err", v |-> EmptyValidatorData,
                       err |-> <<"v","a","l","i","d","a","t","o","r"," ","a","d","d","r","e","s","s"," ","i","s"," ","u","n","d","e","f","i","n","e","d">>]
                 ELSE IF message.kind # "string"
                 THEN [st |-> "err", v |-> EmptyValidatorData,
                       err |-> <<"m","e","s","s","a","g","e"," ","i","s"," ","n","o","t"," ","s","e","n","t"," ","a","s"," ","a"," ","s","t","r","i","n","g">>]
                 ELSE IF messageBytes.st # "ok"
                 THEN [st |-> "err", v |-> EmptyValidatorData, err |-> messageBytes.err]
                 ELSE IF Len(messageBytes.val) = 0
                 THEN [st |-> "err", v |-> EmptyValidatorData,
                       err |-> <<"m","e","s","s","a","g","e"," ","i","s"," ","u","n","d","e","f","i","n","e","d">>]
                 ELSE [st |-> "ok", err |-> <<>>,
                       v |-> [Address |-> BytesToAddress(addrBytes.val),
                              Message |-> messageBytes.val]]
         IN  Decoded(hexutil_Decode(addr.s), hexutil_Decode(message.s))

---------------------------------------------------------------------------
(* The clique header: the fields that enter the seal hash, in the order of *)
(* the header structure.  Extra carries the 65 byte signature at its end.  *)

SignatureLength == 65

\* the length of n as a big-endian byte sequence
RlpLength(n, short, long) ==
    IF n <= 55 THEN <<short + n>> ELSE <<long + Len(NatBytes(n))>> \o NatBytes(n)

\* RLP of a byte string
RlpBytes(b) ==
    IF Len(b) = 1 /\ b[1] < 128 THEN b ELSE RlpLength(Len(b), 128, 183) \o b

\* RLP of a list of encoded items
RlpList(items) == LET payload == Concat(items) IN RlpLength(Len(payload), 192, 247) \o payload

\* clique.CliqueRLP: the header without the signature at the end of the
\* extra data; slicing Extra[:len-65] panics when Extra is shorter
CliqueRLP(header) ==
    IF Len(header.Extra) - SignatureLength < 0
    THEN Panic(<<"s","l","i","c","e"," ","b","o","u","n","d","s"," ","o","u","t"," ","o","f"," ","r","a","n","g","e">>)
    ELSE Ok(RlpList(<<RlpBytes(header.ParentHash), RlpBytes(header.UncleHash),
                      RlpBytes(header.Coinbase), RlpBytes(header.Root),
                      RlpBytes(header.TxHash), RlpBytes(header.ReceiptHash),
                      RlpBytes(header.Bloom), RlpBytes(NatBytes(header.Difficulty)),
                      RlpBytes(NatBytes(header.Number)), RlpBytes(NatBytes(header.GasLimit)),
                      RlpBytes(NatBytes(header.GasUsed)), RlpBytes(NatBytes(header.Time)),
                      RlpBytes(SubSeq(header.Extra, 1, Len(header.Extra) - SignatureLength)),
                      RlpBytes(header.MixDigest), RlpBytes(header.Nonce)>>))

\* clique.SealHash: the hash of that encoding
SealHash(header) ==
    LET Hashed(r) == IF r.st # "ok" THEN r ELSE Ok(Keccak256(r.val))
    IN  Hashed(CliqueRLP(header))

cliqueHeaderHashAndRlpGuard64(header) ==
    IF Len(header.Extra) < 64
    THEN [st |-> "err", hash |-> <<>>, rlp |-> <<>>,
          err |-> <<"c","l","i","q","u","e"," ","h","e","a","d","e","r"," ","e","x","t","r","a","d","a","t","a"," ","t","o","o"," ","s","h","o","r","t",","," ">> \o Itoa(Len(header.Extra)) \o <<" ","<"," ","6","5">>]
    ELSE LET Returned(rlp, hash) ==
                 IF rlp.st = "panic" \/ hash.st = "panic"
                 THEN [st |-> "panic", hash |-> <<>>, rlp |-> <<>>, err |-> rlp.err]
                 ELSE [st |-> "ok", hash |-> hash.val, rlp |-> rlp.val, err |-> <<>>]
         IN  Returned(CliqueRLP(header), SealHash(header))

\* cliqueHeaderHashAndRlp returns the hash which is used as input for the
\* proof-of-authority signing, and the encoding it is the hash of
cliqueHeaderHashAndRlp(header) ==
    IF Len(header.Extra) < 65
    THEN [st |-> "err", hash |-> <<>>, rlp |-> <<>>,
          err |-> <<"c","l","i","q","u","e"," ","h","e","a","d","e","r"," ","e","x","t","r","a","d","a","t","a"," ","t","o","o"," ","s","h","o","r","t",","," ">> \o Itoa(Len(header.Extra)) \o <<" ","<"," ","6","5">>]
    ELSE LET Returned(rlp, hash) ==
                 IF rlp.st = "panic" \/ hash.st = "panic"
                 THEN [st |-> "panic", hash |-> <<>>, rlp |-> <<>>, err |-> rlp.err]
                 ELSE [st |-> "ok", hash |-> hash.val, rlp |-> rlp.val, err |-> <<>>]
         IN  Returned(CliqueRLP(header), SealHash(header))

---------------------------------------------------------------------------
(* The recursion of Dependencies, one call or return at a time.  A frame   *)
(* is one activation: its primaryType, its found and the index i of the    *)
(* field its loop is at (0 before the loop is entered).  The frames are    *)
(* kept in output.stack while output.op is "Dependencies.run".             *)

\* the most frames the walk is followed to
MaxStack == 5

Frame(primaryType, found, i) == [primaryType |-> primaryType, found |-> found, i |-> i]

Top(stack) == stack[Len(stack)]

ReturnsAtOnceNoFoundCheck(t, frame) == IsNilEntry(t, frame.primaryType)

\* the two early returns: the type has been found already, or it is no
\* key of the dictionary
ReturnsAtOnce(t, frame) ==
    includes(frame.found, frame.primaryType) \/ IsNilEntry(t, frame.primaryType)

\* the activation has reached a return statement
Returning(t, frame) ==
    IF frame.i = 0 THEN ReturnsAtOnce(t, frame) ELSE frame.i > Len(FieldsOf(t, frame.primaryType))

\* the caller's inner loop over what the call returned, and the step of
\* its outer loop to the next field
Resume(caller, returned) ==
    Frame(caller.primaryType, AppendNew(caller.found, returned), caller.i + 1)

Running == output.op = "Dependencies.run" /\ ~output.done

\* typedData.Dependencies(primaryType, []string{}) is called
WalkStart ==
    /\ output.op = "none"
    /\ output' = [op |-> "Dependencies.run", done |-> FALSE, r |-> <<>>,
                  stack |-> <<Frame(typedData.PrimaryType, <<>>, 0)>>]
    /\ UNCHANGED <<typedData, input>>

\* found = append(found, primaryType), and the loop over the fields begins
WalkEnter ==
    /\ Running
    /\ Top(output.stack).i = 0
    /\ ~ReturnsAtOnce(typedData.Types, Top(output.stack))
    /\ output' = [output EXCEPT !.stack[Len(output.stack)] =
                     Frame(@.primaryType, Append(@.found, @.primaryType), 1)]
    /\ UNCHANGED <<typedData, input>>

\* the recursive call typedData.Dependencies(field.Type, found)
WalkDescend ==
    /\ Running
    /\ Len(output.stack) < MaxStack
    /\ LET top == Top(output.stack)
       IN  /\ top.i >= 1
           /\ top.i <= Len(FieldsOf(typedData.Types, top.primaryType))
           /\ output' = [output EXCEPT !.stack =
                            Append(@, Frame(FieldsOf(typedData.Types, top.primaryType)[top.i].Type,
                                            top.found, 0))]
    /\ UNCHANGED <<typedData, input>>

\* return found: to the caller, or to whoever called the walk
WalkReturn ==
    /\ Running
    /\ Returning(typedData.Types, Top(output.stack))
    /\ output' = IF Len(output.stack) = 1
                 THEN [output EXCEPT !.done = TRUE, !.r = Top(output.stack).found,
                                     !.stack = <<>>]
                 ELSE [output EXCEPT !.stack =
                          Append(SubSeq(@, 1, Len(@) - 2),
                                 Resume(@[Len(@) - 1], Top(@).found))]
    /\ UNCHANGED <<typedData, input>>

WalkStep == WalkEnter \/ WalkDescend \/ WalkReturn

---------------------------------------------------------------------------
(* Bounds and input sets                                                   *)

\* the largest number of descriptors in a dictionary
MaxFields == 2

NoInput == [op |-> "none"]

NoOutput == [op |-> "none"]

NoDomain ==
    [Name |-> <<>>, Version |-> <<>>, ChainId |-> <<>>,
     VerifyingContract |-> <<>>, Salt |-> <<>>]

ExampleDomain == [NoDomain EXCEPT !.Name = <<"E","x","a","m","p","l","e">>]

\* the dictionaries over the given keys with at most n descriptors in all
RECURSIVE DictsUpTo(_, _, _)
DictsUpTo(keys, fields, n) ==
    IF n = 0 THEN UNION {{[k \in ks |-> <<>>]} : ks \in SUBSET keys}
    ELSE LET smaller == DictsUpTo(keys, fields, n - 1)
         IN  smaller \cup {IF k \in DOMAIN d THEN [d EXCEPT ![k] = Append(d[k], f)] ELSE d :
                             d \in smaller, k \in keys, f \in fields}

Document(t, primaryType, domain, message) ==
    [Types |-> t, PrimaryType |-> primaryType, Domain |-> domain, Message |-> message]

---------------------------------------------------------------------------
(* SpecTypes: the type dictionary; validation, dependencies, type encoding *)

TypeKeys == {<<"A">>, <<"B">>, <<>>, <<"B","["," ","]">>}

TypeFields ==
    {[Name |-> <<"x">>, Type |-> ty] :
        ty \in {<<"A">>, <<"B">>, <<"B","[","]">>, <<"B","["," ","]">>, <<"C">>, <<"s","t","r","i","n","g">>, <<"u","i","n","t","2","4">>, <<>>}}
    \cup {[Name |-> <<>>, Type |-> <<"s","t","r","i","n","g">>]}

TypePrimaries == {<<"A">>, <<"B">>}

InitTypes ==
    /\ \E t \in DictsUpTo(TypeKeys, TypeFields, MaxFields) :
          \E p \in TypePrimaries : typedData = Document(t, p, ExampleDomain, EmptyMap)
    /\ input = NoInput
    /\ output = NoOutput

\* a behaviour applies one operation to its inputs; the operations whose
\* outcome depends on the map iteration may be applied again
Enabled(op) == output.op \in {"none", op}

\* Types.validate under one of the orders of the map iteration
CallTypesValidate ==
    /\ Enabled("Types.validate")
    /\ \E order \in KeyOrders(DOMAIN typedData.Types) :
          output' = [op |-> "Types.validate", r |-> Types_validate(typedData.Types, order)]
    /\ UNCHANGED <<typedData, input>>

CallDependencies ==
    /\ output.op = "none"
    /\ output' = [op |-> "Dependencies",
                  r |-> Ok(Dependencies(typedData.Types, typedData.PrimaryType, <<>>))]
    /\ UNCHANGED <<typedData, input>>

CallEncodeType ==
    /\ output.op = "none"
    /\ output' = [op |-> "EncodeType", r |-> EncodeType(typedData.Types, typedData.PrimaryType)]
    /\ UNCHANGED <<typedData, input>>

CallTypeHash ==
    /\ output.op = "none"
    /\ output' = [op |-> "TypeHash", r |-> TypeHash(typedData.Types, typedData.PrimaryType)]
    /\ UNCHANGED <<typedData, input>>

NextTypes == CallTypesValidate \/ CallDependencies \/ CallEncodeType \/ CallTypeHash

SpecTypes == InitTypes /\ [][NextTypes]_vars

---------------------------------------------------------------------------
(* SpecPrimitive: EncodePrimitiveValue and parseInteger on one type and    *)
(* one value                                                               *)

\* the widths of the registry's integer types
Widths == {8, 16, 32, 64, 128, 256}

\* the decimal numerals of 2^N - 1 and of 2^N
DecimalMax ==
    8 :> <<"2","5","5">> @@
    16 :> <<"6","5","5","3","5">> @@
    32 :> <<"4","2","9","4","9","6","7","2","9","5">> @@
    64 :> <<"1","8","4","4","6","7","4","4","0","7","3","7","0","9","5","5","1","6","1","5">> @@
    128 :> <<"3","4","0","2","8","2","3","6","6","9","2","0","9","3","8","4","6","3","4","6","3","3","7","4","6","0","7","4","3","1","7","6","8","2","1","1","4","5","5">> @@
    256 :> <<"1","1","5","7","9","2","0","8","9","2","3","7","3","1","6","1","9","5","4","2","3","5","7","0","9","8","5","0","0","8","6","8","7","9","0","7","8","5","3","2","6","9","9","8","4","6","6","5","6","4","0","5","6","4","0","3","9","4","5","7","5","8","4","0","0","7","9","1","3","1","2","9","6","3","9","9","3","5">>

DecimalOver ==
    8 :> <<"2","5","6">> @@
    16 :> <<"6","5","5","3","6">> @@
    32 :> <<"4","2","9","4","9","6","7","2","9","6">> @@
    64 :> <<"1","8","4","4","6","7","4","4","0","7","3","7","0","9","5","5","1","6","1","6">> @@
    128 :> <<"3","4","0","2","8","2","3","6","6","9","2","0","9","3","8","4","6","3","4","6","3","3","7","4","6","0","7","4","3","1","7","6","8","2","1","1","4","5","6">> @@
    256 :> <<"1","1","5","7","9","2","0","8","9","2","3","7","3","1","6","1","9","5","4","2","3","5","7","0","9","8","5","0","0","8","6","8","7","9","0","7","8","5","3","2","6","9","9","8","4","6","6","5","6","4","0","5","6","4","0","3","9","4","5","7","5","8","4","0","0","7","9","1","3","1","2","9","6","3","9","9","3","6">>

\* the magnitudes 2^N - 1 (N bits) and 2^N (N + 1 bits)
BytesMax(N) == [i \in 1..(N \div 8) |-> 255]

BytesOver(N) == <<1>> \o Zeros(N \div 8)

\* an integer in one of its forms, with its sign and bit length: a big
\* integer object, decimal text, or hex text as HexOrDecimal256 writes it
IntegerInputs ==
    UNION {
      {[encValue |-> BigValue(Big(neg, mag.b)), integer |-> TRUE, neg |-> neg, bitLen |-> mag.n],
       [encValue |-> StringValue((IF neg THEN <<"-">> ELSE <<>>) \o mag.d),
        integer |-> TRUE, neg |-> neg, bitLen |-> mag.n],
       [encValue |-> StringValue(<<"0","x">> \o (IF neg THEN <<"-">> ELSE <<>>) \o HexText(mag.b)),
        integer |-> TRUE, neg |-> neg, bitLen |-> mag.n]} :
      neg \in BOOLEAN,
      mag \in {[b |-> BytesMax(N), d |-> DecimalMax[N], n |-> N] : N \in Widths}
               \cup {[b |-> BytesOver(N), d |-> DecimalOver[N], n |-> N + 1] : N \in Widths}
               \cup {[b |-> <<1>>, d |-> <<"1">>, n |-> 1], [b |-> <<127>>, d |-> <<"1","2","7">>, n |-> 7]}}

ExampleAddress == <<"0","x","C","c","C","C","c","c","c","c","C","C","C","C","c","C","C","C","C","C","C","c","C","c","C","c","c","C","c","C","C","C","c","C","c","c","c","c","c","c","c","C">>

OtherInputs ==
    {[encValue |-> v, integer |-> FALSE, neg |-> FALSE, bitLen |-> 0] :
        v \in {NilValue, NilBigValue, BoolValue(TRUE), BoolValue(FALSE),
               Float64Value(2), Float64Value(3), Float64Value(0 - 512),
               StringValue(<<"H","e","l","l","o",","," ","B","o","b","!">>), StringValue(<<>>), StringValue(ExampleAddress),
               ByteSliceValue(<<1, 2>>), HexBytesValue(<<>>), HexBytesValue(<<1>>),
               HexBytesValue(<<1, 2>>), HexBytesValue([i \in 1..33 |-> i]),
               ArrayValue(<<>>), MapValue(EmptyMap)}}

\* the integer types of the registry with their width and signedness
IntegerTypes ==
    {[name |-> <<"i","n","t">> \o Itoa(N), bits |-> N, signed |-> TRUE] : N \in Widths}
    \cup {[name |-> <<"u","i","n","t">> \o Itoa(N), bits |-> N, signed |-> FALSE] : N \in Widths}

PrimitiveTypes ==
    {ty.name : ty \in IntegerTypes}
    \cup {<<"i","n","t">>, <<"u","i","n","t">>, <<"a","d","d","r","e","s","s">>, <<"b","o","o","l">>, <<"s","t","r","i","n","g">>, <<"b","y","t","e","s">>, <<"b","y","t","e","s","1">>, <<"b","y","t","e","s","3","2">>,
          <<"u","i","n","t","8","[","]">>, <<"u","i","n","t","2","4">>, <<"i","n","t","7">>, <<"b","y","t","e","s","0">>, <<"b","y","t","e","s","3","3">>, <<"b","y","t","e","s","-","1">>, <<"b","y","t","e","s","X">>,
          <<"u","i","n","t","X">>, <<"i","n","t","-","8">>, <<"f","l","o","a","t">>, <<"P","e","r","s","o","n">>, <<>>}

InitPrimitive ==
    /\ typedData = Document(EmptyMap, <<>>, NoDomain, EmptyMap)
    /\ input \in {[op |-> "primitive", encType |-> ty, encValue |-> v.encValue,
                    integer |-> v.integer, neg |-> v.neg, bitLen |-> v.bitLen] :
                      ty \in PrimitiveTypes, v \in IntegerInputs \cup OtherInputs}
    /\ output = NoOutput

CallEncodePrimitiveValue ==
    /\ output.op = "none"
    /\ output' = [op |-> "EncodePrimitiveValue",
                  r |-> EncodePrimitiveValue(input.encType, input.encValue, 1)]
    /\ UNCHANGED <<typedData, input>>

CallParseInteger ==
    /\ output.op = "none"
    /\ output' = [op |-> "parseInteger", r |-> parseInteger(input.encType, input.encValue)]
    /\ UNCHANGED <<typedData, input>>

NextPrimitive == CallEncodePrimitiveValue \/ CallParseInteger

SpecPrimitive == InitPrimitive /\ [][NextPrimitive]_vars

---------------------------------------------------------------------------
(* SpecDomain: the domain descriptor                                       *)

Domains ==
    {[Name |-> n, Version |-> v, ChainId |-> c, VerifyingContract |-> a, Salt |-> s] :
        n \in {<<>>, <<"E","x","a","m","p","l","e">>, <<"E","t","h","e","r"," ","M","a","i","l">>},
        v \in {<<>>, <<"1">>},
        c \in {<<>>, <<NewInt(1)>>, <<BigZero>>},
        a \in {<<>>, ExampleAddress},
        s \in {<<>>, <<"0","x","0","1">>}}

InitDomain ==
    /\ typedData \in {Document(EmptyMap, <<>>, d, EmptyMap) : d \in Domains}
    /\ input = NoInput
    /\ output = NoOutput

CallDomainValidate ==
    /\ output.op = "none"
    /\ output' = [op |-> "TypedDataDomain.validate",
                  r |-> TypedDataDomain_validate(typedData.Domain)]
    /\ UNCHANGED <<typedData, input>>

CallTypedDataValidate ==
    /\ Enabled("TypedData.validate")
    /\ \E order \in KeyOrders(DOMAIN typedData.Types) :
          output' = [op |-> "TypedData.validate", r |-> TypedData_validate(typedData, order)]
    /\ UNCHANGED <<typedData, input>>

NextDomain == CallDomainValidate \/ CallTypedDataValidate

SpecDomain == InitDomain /\ [][NextDomain]_vars

---------------------------------------------------------------------------
(* SpecValidator: the validator-prefix codec                               *)

\* candidates for the address and message entries of the request, with
\* whether the entry is hex text that decodes to at least one byte
AddressEntries ==
    {[v |-> StringValue(ExampleAddress), good |-> TRUE],
     [v |-> StringValue(<<"0","x","0","1">>), good |-> TRUE],
     [v |-> StringValue(<<"0","x">> \o HexText([i \in 1..21 |-> i])), good |-> TRUE],
     [v |-> StringValue(<<"0","x">>), good |-> FALSE],
     [v |-> StringValue(<<>>), good |-> FALSE],
     [v |-> StringValue(<<"0","x","z","z">>), good |-> FALSE],
     [v |-> StringValue(<<"0","1","2","3">>), good |-> FALSE],
     [v |-> StringValue(<<"0","x","1","2","3">>), good |-> FALSE],
     [v |-> BoolValue(TRUE), good |-> FALSE],
     [v |-> HexBytesValue(Zeros(20)), good |-> FALSE],
     [v |-> NilValue, good |-> FALSE]}

MessageEntries ==
    {[v |-> StringValue(<<"0","x","d","e","a","d","b","e","e","f">>), good |-> TRUE],
     [v |-> StringValue(<<"0","x","0","0">>), good |-> TRUE],
     [v |-> StringValue(<<"0","x">>), good |-> FALSE],
     [v |-> StringValue(<<"H","e","l","l","o">>), good |-> FALSE],
     [v |-> Float64Value(2), good |-> FALSE],
     [v |-> NilValue, good |-> FALSE]}

\* the request as a map, with or without each of its two entries
ValidatorRequests ==
    {[data |-> MapValue([k \in {<<"a","d","d","r","e","s","s">>, <<"m","e","s","s","a","g","e">>} |->
                           IF k = <<"a","d","d","r","e","s","s">> THEN a.v ELSE m.v]),
      good |-> a.good /\ m.good] : a \in AddressEntries, m \in MessageEntries}
    \cup {[data |-> MapValue([k \in {<<"a","d","d","r","e","s","s">>} |-> a.v]), good |-> FALSE] :
            a \in AddressEntries}
    \cup {[data |-> MapValue([k \in {<<"m","e","s","s","a","g","e">>} |-> m.v]), good |-> FALSE] :
            m \in MessageEntries}
    \cup {[data |-> d, good |-> FALSE] :
            d \in {MapValue(EmptyMap), NilValue, StringValue(ExampleAddress), ArrayValue(<<>>)}}

\* validator data that is signed without having been unmarshalled
DirectValidatorData ==
    {[Address |-> a, Message |-> m] :
        a \in {Zeros(AddressLength), [i \in 1..AddressLength |-> 10 * i]},
        m \in {<<>>, <<0>>, <<25, 0, 255>>}}

InitValidator ==
    /\ typedData = Document(EmptyMap, <<>>, NoDomain, EmptyMap)
    /\ input \in {[op |-> "validator", data |-> q.data, good |-> q.good] :
                    q \in ValidatorRequests}
    /\ output = NoOutput

CallUnmarshalValidatorData ==
    /\ output.op = "none"
    /\ output' = [op |-> "UnmarshalValidatorData", r |-> UnmarshalValidatorData(input.data)]
    /\ UNCHANGED <<typedData, input>>

\* SignTextValidator on the data just unmarshalled, or on data given
CallSignTextValidator ==
    /\ output.op \in {"none", "UnmarshalValidatorData"}
    /\ \E validatorData \in
            IF output.op = "UnmarshalValidatorData"
            THEN {output.r.v : x \in {y \in {1} : output.r.st = "ok"}}
            ELSE DirectValidatorData :
          output' = [op |-> "SignTextValidator", validatorData |-> validatorData,
                     r |-> SignTextValidator(validatorData)]
    /\ UNCHANGED <<typedData, input>>

NextValidator == CallUnmarshalValidatorData \/ CallSignTextValidator

SpecValidator == InitValidator /\ [][NextValidator]_vars

---------------------------------------------------------------------------
(* SpecClique: the clique header helper                                    *)

\* the longest extra data
MaxExtra == 66

Header(extra, number) ==
    [ParentHash |-> Zeros(32), UncleHash |-> Zeros(32), Coinbase |-> Zeros(AddressLength),
     Root |-> Zeros(32), TxHash |-> Zeros(32), ReceiptHash |-> Zeros(32),
     Bloom |-> Zeros(256), Difficulty |-> 2, Number |-> number, GasLimit |-> 8000000,
     GasUsed |-> 0, Time |-> 1550000000, Extra |-> extra,
     MixDigest |-> Zeros(32), Nonce |-> Zeros(8)]

InitClique ==
    /\ typedData = Document(EmptyMap, <<>>, NoDomain, EmptyMap)
    /\ input \in {[op |-> "header", header |-> Header(extra, number)] :
                    extra \in {Zeros(n) : n \in 0..MaxExtra}
                              \cup {[i \in 1..n |-> (7 * i) % 256] : n \in 0..MaxExtra},
                    number \in {0, 1}}
    /\ output = NoOutput

CallCliqueHeaderHashAndRlp ==
    /\ output.op = "none"
    /\ output' = [op |-> "cliqueHeaderHashAndRlp", r |-> cliqueHeaderHashAndRlp(input.header)]
    /\ UNCHANGED <<typedData, input>>

NextClique == CallCliqueHeaderHashAndRlp

SpecClique == InitClique /\ [][NextClique]_vars

---------------------------------------------------------------------------
(* SpecEncode: documents with a message; EncodeData, HashStruct, TypeHash  *)
(* and EncodeType on the primary type                                      *)

\* the largest number of descriptors in a dictionary that is encoded against
MaxEncFields == 2

EncKeys == {<<"A">>, <<"B">>}

EncFields ==
    {[Name |-> n, Type |-> ty] : n \in {<<"x">>, <<"y">>}, ty \in {<<"u","i","n","t","8">>, <<"b","y","t","e","s","1">>, <<"B">>, <<"B","[","]">>}}
    \cup {[Name |-> <<"x">>, Type |-> <<>>]}

\* the name of an entry that no struct declares
ExtraName == <<"z">>

Extend(m, n, v) == [k \in DOMAIN m \cup {n} |-> IF k = n THEN v ELSE m[k]]

\* the values tried for a primitive type: one it accepts and one it
\* should refuse
PrimitiveValues(ty) ==
    IF ty = <<"u","i","n","t","8">> THEN {StringValue(<<"1">>), HexBytesValue(<<1>>)}
    ELSE IF ty = <<"b","y","t","e","s","1">> THEN {HexBytesValue(<<1>>), HexBytesValue([i \in 1..33 |-> i])}
    ELSE {StringValue(<<"1">>)}

\* the values tried for a field of a nested struct
NestedValues(t, ty) ==
    IF HasSuffix(ty, <<"]">>) THEN {StringValue(<<"1">>), ArrayValue(<<>>)}
    ELSE IF ty \in DOMAIN t THEN {StringValue(<<"1">>), MapValue(EmptyMap)}
    ELSE PrimitiveValues(ty)

RECURSIVE MapsOver(_, _, _, _)

\* the values tried for a struct: a string, and the maps tried for it
StructValues(t, S) ==
    {StringValue(<<"1">>)}
    \cup {MapValue(m) :
            m \in MapsOver(t, S, {FieldsOf(t, S)[i].Name : i \in 1..Len(FieldsOf(t, S))}, TRUE)}

\* the values tried for a field of the primary type: for an array a
\* string, the empty array and the arrays of one item
ValuesFor(t, ty) ==
    IF HasSuffix(ty, <<"]">>)
    THEN {StringValue(<<"1">>), ArrayValue(<<>>)}
         \cup {ArrayValue(<<v>>) :
                 v \in IF SplitFirst(ty, "[") \in DOMAIN t
                       THEN StructValues(t, SplitFirst(ty, "["))
                       ELSE PrimitiveValues(SplitFirst(ty, "["))}
    ELSE IF ty \in DOMAIN t THEN StructValues(t, ty)
    ELSE PrimitiveValues(ty)

\* the maps over some of the given names, each name with a value tried
\* for a field of struct S of that name
MapsOver(t, S, names, nested) ==
    IF names = {} THEN {EmptyMap}
    ELSE LET n == CHOOSE x \in names : TRUE
             rest == MapsOver(t, S, names \ {n}, nested)
             declared == {j \in 1..Len(FieldsOf(t, S)) : FieldsOf(t, S)[j].Name = n}
             values == IF declared = {} THEN {StringValue(<<"1">>)}
                       ELSE UNION {IF nested THEN NestedValues(t, FieldsOf(t, S)[i].Type)
                                   ELSE ValuesFor(t, FieldsOf(t, S)[i].Type) : i \in declared}
         IN  rest \cup {Extend(m, n, v) : m \in rest, v \in values}

\* the messages tried for struct S: any of its fields may be missing, and
\* an entry that it does not declare may be present
MessagesFor(t, S) ==
    MapsOver(t, S, {FieldsOf(t, S)[i].Name : i \in 1..Len(FieldsOf(t, S))} \cup {ExtraName},
             FALSE)

InitEncode ==
    /\ \E t \in DictsUpTo(EncKeys, EncFields, MaxEncFields) :
          \E m \in MessagesFor(t, <<"A">>) :
             typedData = Document(t, <<"A">>, ExampleDomain, m)
    /\ input = NoInput
    /\ output = NoOutput

CallEncodeData ==
    /\ Enabled("EncodeData")
    /\ \E order \in KeyOrders(DOMAIN typedData.Types) :
          output' = [op |-> "EncodeData",
                     r |-> EncodeData(typedData, typedData.PrimaryType,
                                      typedData.Message, 1, order)]
    /\ UNCHANGED <<typedData, input>>

CallHashStruct ==
    /\ output.op = "none"
    /\ \E order \in KeyOrders(DOMAIN typedData.Types) :
          output' = [op |-> "HashStruct",
                     r |-> HashStruct(typedData, typedData.PrimaryType,
                                      typedData.Message, order)]
    /\ UNCHANGED <<typedData, input>>

NextEncode == CallEncodeData \/ CallHashStruct \/ CallEncodeType \/ CallTypeHash

SpecEncode == InitEncode /\ [][NextEncode]_vars

---------------------------------------------------------------------------
(* SpecMissing: a struct of primitive fields and messages that provide     *)
(* some of them, each with a value its type accepts; EncodeData and        *)
(* HashStruct                                                              *)

\* the largest number of descriptors of the struct
MaxDeclared == 2

\* one type of each primitive family
FamilyTypes == {<<"a","d","d","r","e","s","s">>, <<"b","o","o","l">>, <<"s","t","r","i","n","g">>, <<"b","y","t","e","s">>, <<"b","y","t","e","s","1">>, <<"i","n","t","8">>, <<"u","i","n","t","2","5","6">>}

FamilyFields == {[Name |-> n, Type |-> ty] : n \in {<<"x">>, <<"y">>}, ty \in FamilyTypes}

\* a value that the primitive encoder accepts for the type
AcceptedValue(ty) ==
    CASE ty = <<"a","d","d","r","e","s","s">> -> StringValue(ExampleAddress)
      [] ty = <<"b","o","o","l">> -> BoolValue(TRUE)
      [] ty = <<"s","t","r","i","n","g">> -> StringValue(<<"H","e","l","l","o",","," ","B","o","b","!">>)
      [] ty = <<"b","y","t","e","s">> -> ByteSliceValue(<<1, 2>>)
      [] ty = <<"b","y","t","e","s","1">> -> HexBytesValue(<<1>>)
      [] OTHER -> StringValue(<<"1">>)

\* the descriptor sequences of 1..n descriptors
RECURSIVE DescriptorsUpTo(_)
DescriptorsUpTo(n) ==
    IF n = 0 THEN {<<>>}
    ELSE DescriptorsUpTo(n - 1)
         \cup {Append(d, f) : d \in DescriptorsUpTo(n - 1), f \in FamilyFields}

\* the messages that provide some of the declared names and nothing else,
\* each with a value accepted by every descriptor of that name
MessagesOmitting(fields) ==
    UNION {{m \in [ns -> {AcceptedValue(ty) : ty \in FamilyTypes}] :
              \A n \in ns : \A i \in 1..Len(fields) :
                 fields[i].Name = n => m[n] = AcceptedValue(fields[i].Type)} :
           ns \in SUBSET {fields[i].Name : i \in 1..Len(fields)}}

InitMissing ==
    /\ \E fields \in DescriptorsUpTo(MaxDeclared) \ {<<>>} :
          \E m \in MessagesOmitting(fields) :
             typedData = Document([k \in {<<"A">>} |-> fields], <<"A">>, ExampleDomain, m)
    /\ input = NoInput
    /\ output = NoOutput

NextMissing == CallEncodeData \/ CallHashStruct

SpecMissing == InitMissing /\ [][NextMissing]_vars

---------------------------------------------------------------------------
(* SpecCycle: dictionaries over A, B and C whose structs refer to one      *)
(* another, with messages nested up to three deep; validation, the         *)
(* dependency walk step by step, EncodeType and EncodeData                 *)

\* the largest number of descriptors of A and of B
MaxCycleFields == 1

CycleTypes == {<<"A">>, <<"B">>, <<"C">>, <<"s","t","r","i","n","g">>}

\* the descriptor sequences of at most n descriptors, named x, y, ... in turn
RECURSIVE CycleFields(_)
CycleFields(n) ==
    IF n = 0 THEN {<<>>}
    ELSE CycleFields(n - 1)
         \cup {Append(d, [Name |-> <<Printable[89 + Len(d)]>>, Type |-> ty]) :
                 d \in {e \in CycleFields(n - 1) : Len(e) = n - 1}, ty \in CycleTypes}

\* C always refers back to A
CycleDicts ==
    {[k \in {<<"A">>, <<"B">>, <<"C">>} |->
         IF k = <<"A">> THEN a ELSE IF k = <<"B">> THEN b
         ELSE <<[Name |-> <<"x">>, Type |-> <<"A">>]>>] :
        a \in CycleFields(MaxCycleFields), b \in CycleFields(MaxCycleFields)}

Nest(m) == [k \in {<<"x">>} |-> MapValue(m)]

CycleMessages ==
    {EmptyMap, Nest(EmptyMap), Nest(Nest(EmptyMap)), Nest(Nest(Nest(EmptyMap))),
     [k \in {<<"x">>} |-> StringValue(<<"1">>)]}

InitCycle ==
    /\ \E t \in CycleDicts : \E m \in CycleMessages :
          typedData = Document(t, <<"A">>, ExampleDomain, m)
    /\ input = NoInput
    /\ output = NoOutput

NextCycle ==
    \/ CallTypesValidate
    \/ CallEncodeType
    \/ CallEncodeData
    \/ WalkStart
    \/ WalkEnter
    \/ WalkDescend
    \/ WalkReturn

\* a call that has been made keeps running
SpecCycle == InitCycle /\ [][NextCycle]_vars /\ WF_vars(WalkStep)

---------------------------------------------------------------------------
(* Claims about the type dictionary (SpecTypes)                            *)

\* the structs a struct refers to: the types of its fields, an array type
\* 'T[]' counting as T, that are keys of the dictionary
StructRefs(t, k) == {typeName(t[k][i]) : i \in 1..Len(t[k])} \cap DOMAIN t

RECURSIVE ReachableFrom(_, _)
ReachableFrom(t, set) ==
    LET next == set \cup UNION {StructRefs(t, k) : k \in set}
    IN  IF next = set THEN set ELSE ReachableFrom(t, next)

RECURSIVE SortedSeqOf(_)
SortedSeqOf(set) ==
    IF set = {} THEN <<>>
    ELSE LET least == CHOOSE x \in set : \A y \in set \ {x} : StrLess(x, y)
         IN  <<least>> \o SortedSeqOf(set \ {least})

CanonicalStructs(t, S) == <<S>> \o SortedSeqOf(ReachableFrom(t, {S}) \ {S})

\* C1: for every dictionary and every struct S in it, EncodeType(S) writes
\* S first and then exactly the structs reachable from S through field
\* types, 'T[]' counting as a reference to T, each once, in ascending order
C1_CanonicalOrdering ==
    (output.op = "EncodeType" /\ typedData.PrimaryType \in DOMAIN typedData.Types)
    => output.r = WriteDeps(typedData.Types,
                            CanonicalStructs(typedData.Types, typedData.PrimaryType), <<>>)

\* the conditions the dictionary validator is described by
DescriptorSound(t, k, f) ==
    /\ f.Name # <<>>
    /\ f.Type # <<>>
    /\ f.Type # k
    /\ IF IsUpper(f.Type[1])
       THEN TrimSuffix(f.Type, <<"[","]">>) \in DOMAIN t /\ typedDataReferenceTypeRegexp(f.Type)
       ELSE isPrimitiveTypeValid(f.Type)

DictionarySound(t) ==
    \A k \in DOMAIN t : k # <<>> /\ \A i \in 1..Len(t[k]) : DescriptorSound(t, k, t[k][i])

\* C10: Types.validate succeeds if and only if every key is non-empty and
\* every descriptor has a name and a type, does not have its owner's key as
\* its type, and is either a reference type whose base name is a key and
\* which matches the reference type pattern, or a registered primitive
C10_ValidateIffSound ==
    output.op = "Types.validate"
    => (output.r.st = "ok" <=> DictionarySound(typedData.Types))

\* Types.validate has rejected 'B[ ]', whose name is a key but which does
\* not match the pattern
C10_Witness ==
    /\ output.op = "Types.validate"
    /\ output.r = Err(<<"u","n","k","n","o","w","n"," ","r","e","f","e","r","e","n","c","e"," ","t","y","p","e"," ">> \o Quote(<<"B","["," ","]">>))
    /\ DOMAIN typedData.Types = {<<"A">>, <<"B","["," ","]">>}

---------------------------------------------------------------------------
(* Claims about the primitive encoder (SpecPrimitive)                      *)

\* C2: for every type intN or uintN of the registry and every integer v,
\* given as a big integer or as text, EncodePrimitiveValue returns 32
\* bytes when bitLen(v) <= N and v >= 0 or the type is signed, and an error
\* when bitLen(v) > N or v < 0 under an unsigned type
C2_WidthLaw ==
    (output.op = "EncodePrimitiveValue" /\ input.integer)
    => \A ty \in IntegerTypes :
          ty.name = input.encType
          => IF input.bitLen <= ty.bits /\ (~input.neg \/ ty.signed)
             THEN output.r.st = "ok" /\ Len(output.r.val) = 32
             ELSE output.r.st = "err"

\* uint8 with the text 255 has been encoded to 32 bytes ending in ff
C2_Witness ==
    /\ output.op = "EncodePrimitiveValue"
    /\ input.encType = <<"u","i","n","t","8">>
    /\ input.encValue = StringValue(<<"2","5","5">>)
    /\ output.r = Ok(Zeros(31) \o <<255>>)

\* C3: EncodePrimitiveValue(t, v) succeeds only when isPrimitiveTypeValid(t);
\* for every t outside the registry it returns an error for every v
C3_PrimitiveClosure ==
    (output.op = "EncodePrimitiveValue" /\ ~isPrimitiveTypeValid(input.encType))
    => output.r.st = "err"


\* the types bytes1 .. bytes32 with their length
BytesTypes == {[name |-> <<"b","y","t","e","s">> \o Itoa(N), length |-> N] : N \in 1..32}

\* C13: for every N in 1..32, EncodePrimitiveValue('bytesN', v) accepts a
\* byte sequence v only when len(v) <= N, and returns an error when v is
\* longer than N bytes
C13_BytesLengthCheck ==
    (output.op = "EncodePrimitiveValue" /\ input.encValue.kind = "hexutil.Bytes")
    => \A ty \in BytesTypes :
          (ty.name = input.encType /\ Len(input.encValue.b) > ty.length)
          => output.r.st = "err"
---------------------------------------------------------------------------
(* Claims about the domain, the validator codec and the header helper      *)

DomainEmpty(d) ==
    /\ d.Name = <<>>
    /\ d.Version = <<>>
    /\ d.ChainId = <<>>
    /\ d.VerifyingContract = <<>>
    /\ d.Salt = <<>>

\* C4: TypedDataDomain.validate fails when all five fields are empty and
\* succeeds as soon as one of the five is populated, chainId included
C4_DomainNonEmptiness ==
    output.op = "TypedDataDomain.validate"
    => (output.r.st = "err" <=> DomainEmpty(typedData.Domain))

\* C7: SignTextValidator returns the pre-image 0x19 0x00 || address ||
\* message, of length 2 + 20 + len(message), and the digest of exactly that
\* pre-image; UnmarshalValidatorData returns an error and an empty
\* ValidatorData when the input is not a mapping or when address or message
\* is not text, is not valid hex or decodes to no bytes
C7_ValidatorPrefix ==
    /\ output.op = "SignTextValidator"
       => /\ Len(output.validatorData.Address) = 20
          /\ output.r.msg = <<25, 0>> \o output.validatorData.Address
                                      \o output.validatorData.Message
          /\ Len(output.r.msg) = 2 + 20 + Len(output.validatorData.Message)
          /\ output.r.hash = Keccak256(output.r.msg)
          /\ Len(output.r.hash) = 32
    /\ (output.op = "UnmarshalValidatorData" /\ ~input.good)
       => output.r.st = "err" /\ output.r.v = EmptyValidatorData

\* the data unmarshalled from a request has been signed
C7_Witness ==
    /\ output.op = "SignTextValidator"
    /\ input.good
    /\ output.validatorData.Message = <<222, 173, 190, 239>>
    /\ output.validatorData.Address = HexBytes(SubSeq(ExampleAddress, 3, 42))
    /\ Len(output.r.msg) = 26

\* C8: cliqueHeaderHashAndRlp returns the error 'clique header extradata
\* too short, <len> < 65' with no hash and no RLP when the extra data is
\* shorter than 65 bytes, and a non-empty RLP and a 32 byte hash with no
\* error otherwise
C8_HeaderGuard ==
    output.op = "cliqueHeaderHashAndRlp"
    => IF Len(input.header.Extra) < 65
       THEN /\ output.r.st = "err"
            /\ output.r.err = <<"c","l","i","q","u","e"," ","h","e","a","d","e","r"," ","e","x","t","r","a","d","a","t","a"," ","t","o","o"," ","s","h","o","r","t",","," ">>
                              \o Itoa(Len(input.header.Extra)) \o <<" ","<"," ","6","5">>
            /\ output.r.hash = <<>>
            /\ output.r.rlp = <<>>
       ELSE /\ output.r.st = "ok"
            /\ output.r.err = <<>>
            /\ Len(output.r.rlp) > 0
            /\ Len(output.r.hash) = 32

\* a header with 64 bytes of extra data has been refused
C8_Witness ==
    /\ output.op = "cliqueHeaderHashAndRlp"
    /\ Len(input.header.Extra) = 64
    /\ output.r.err = <<"c","l","i","q","u","e"," ","h","e","a","d","e","r"," ","e","x","t","r","a","d","a","t","a"," ","t","o","o"," ","s","h","o","r","t",","," ","6","4"," ","<"," ","6","5">>

---------------------------------------------------------------------------
(* Claims about the value encoder (SpecEncode)                             *)

\* C5: HashStruct, EncodeData, TypeHash and EncodeType finish by returning
\* a value or an error, whether or not the primary type is a key of the
\* dictionary and whatever number of fields its struct declares; none of
\* them panics
C5_NoPanic ==
    output.op \in {"HashStruct", "EncodeData", "TypeHash", "EncodeType"}
    => output.r.st \in {"ok", "err"}

\* EncodeData has returned the validator's error for a primary type with a
\* descriptor of empty type, whose last character it would have read
C5_Witness ==
    /\ output.op = "EncodeData"
    /\ output.r.st = "err"
    /\ typedData.PrimaryType \in DOMAIN typedData.Types
    /\ \E i \in 1..Len(typedData.Types[typedData.PrimaryType]) :
          typedData.Types[typedData.PrimaryType][i].Type = <<>>

\* C6: whenever EncodeData(S, msg) succeeds for a struct S with n declared
\* fields, its result is exactly 32 * (n + 1) bytes
C6_WordPerField ==
    (output.op = "EncodeData" /\ output.r.st = "ok")
    => Len(output.r.val)
         = 32 * (Len(FieldsOf(typedData.Types, typedData.PrimaryType)) + 1)

\* C9: every invocation of the encoder on the same document yields the
\* same outcome; a document that fails always fails with the same error
C9_DeterministicFailure ==
    [][(output.op = "EncodeData" /\ output'.op = "EncodeData") => output'.r = output.r]_vars


\* the names of the fields a struct declares
DeclaredNames(t, S) == {FieldsOf(t, S)[i].Name : i \in 1..Len(FieldsOf(t, S))}

\* C11: EncodeData(S, msg) returns an error whenever msg provides a field
\* that S does not declare, however many declared fields msg omits
C11_ExtraFieldsRejected ==
    (/\ output.op = "EncodeData"
     /\ DOMAIN typedData.Message
          \ DeclaredNames(typedData.Types, typedData.PrimaryType) # {})
    => output.r.st = "err"

---------------------------------------------------------------------------
(* Claims about missing fields (SpecMissing)                               *)

\* the positions of the declared fields that the message omits
MissingFields ==
    {i \in 1..Len(FieldsOf(typedData.Types, typedData.PrimaryType)) :
        FieldsOf(typedData.Types, typedData.PrimaryType)[i].Name
            \notin DOMAIN typedData.Message}

\* the word of the zero value of a primitive type
ZeroWord(ty) == IF ty \in {<<"s","t","r","i","n","g">>, <<"b","y","t","e","s">>} THEN Keccak256(<<>>) ELSE Zeros(32)

\* the error of the primitive encoder for a field of type ty that has no
\* value
NoValueError(ty) ==
    IF HasPrefix(ty, <<"i","n","t">>) \/ HasPrefix(ty, <<"u","i","n","t">>)
    THEN Err(<<"i","n","v","a","l","i","d"," ","i","n","t","e","g","e","r"," ","v","a","l","u","e"," ","<","n","i","l",">","/","<","n","i","l",">"," ","f","o","r"," ","t","y","p","e"," ">> \o ty)
    ELSE Err(<<"p","r","o","v","i","d","e","d"," ","d","a","t","a"," ","'","<","n","i","l",">","'"," ","d","o","e","s","n","'","t"," ","m","a","t","c","h"," ","t","y","p","e"," ","'">> \o ty \o <<"'">>)

\* C12 as stated: when a message omits a declared field of primitive type,
\* EncodeData does not fail on that field and writes the word of the zero
\* value of the type as the field's word
C12_MissingFieldsZeroEncoded ==
    (output.op = "EncodeData" /\ MissingFields # {})
    => /\ output.r.st = "ok"
       /\ \A i \in MissingFields :
             SubSeq(output.r.val, 32 * i + 1, 32 * i + 32)
               = ZeroWord(FieldsOf(typedData.Types, typedData.PrimaryType)[i].Type)

\* C12 as amended: when a message omits a declared field of primitive
\* type, EncodeData fails and returns no encoding; the provided fields
\* being acceptable, the error is that of the first omitted field, for
\* which the primitive encoder is given no value
C12_MissingFieldsFail ==
    (output.op = "EncodeData" /\ MissingFields # {})
    => LET first == CHOOSE i \in MissingFields : \A j \in MissingFields : i <= j
       IN  output.r
             = NoValueError(FieldsOf(typedData.Types, typedData.PrimaryType)[first].Type)

\* EncodeData has refused a message without the uint256 field that the
\* struct declares after a bool field, which the message provides
C12_Witness ==
    /\ output.op = "EncodeData"
    /\ typedData.Types[<<"A">>] = <<[Name |-> <<"x">>, Type |-> <<"b","o","o","l">>],
                                 [Name |-> <<"y">>, Type |-> <<"u","i","n","t","2","5","6">>]>>
    /\ DOMAIN typedData.Message = {<<"x">>}
    /\ output.r = Err(<<"i","n","v","a","l","i","d"," ","i","n","t","e","g","e","r"," ","v","a","l","u","e"," ","<","n","i","l",">","/","<","n","i","l",">"," ","f","o","r"," ","t","y","p","e"," ","u","i","n","t","2","5","6">>)

---------------------------------------------------------------------------
(* Claims about reference cycles (SpecCycle)                               *)

\* the structs that are reached from S and reach S again through another
\* struct: S is on an indirect reference cycle
OnIndirectCycle(t, S) ==
    \E k \in StructRefs(t, S) \ {S} : S \in ReachableFrom(t, {k})

\* no struct of the dictionary has a field of its own type
NoSelfReference(t) == \A k \in DOMAIN t : \A i \in 1..Len(t[k]) : t[k][i].Type # k

\* the primary type is on an indirect cycle of a dictionary that the
\* validator has nothing else to object to
CyclicDocument ==
    /\ typedData.PrimaryType \in DOMAIN typedData.Types
    /\ OnIndirectCycle(typedData.Types, typedData.PrimaryType)
    /\ NoSelfReference(typedData.Types)

CycleSafe ==
    CyclicDocument
    => /\ output.op = "Types.validate" => output.r.st = "ok"
       /\ output.op = "Dependencies.run"
          => /\ Len(output.stack) <= Cardinality(DOMAIN typedData.Types) + 1
             /\ Len(output.stack) < MaxStack
             /\ output.done
                => /\ Len(output.r) = Cardinality(ReachableFrom(typedData.Types,
                                                                   {typedData.PrimaryType}))
                   /\ {output.r[i] : i \in 1..Len(output.r)}
                        = ReachableFrom(typedData.Types, {typedData.PrimaryType})
                   /\ output.r = Dependencies(typedData.Types, typedData.PrimaryType, <<>>)
       /\ output.op = "EncodeType"
          => output.r = WriteDeps(typedData.Types,
                                  CanonicalStructs(typedData.Types, typedData.PrimaryType),
                                  <<>>)
       /\ output.op = "EncodeData" => output.r.st \in {"ok", "err"}

====
